---- MODULE Spec2Model ----
(***************************************************************************)
(* Model of event_socket_server/base_server.py: the BaseServer reactor     *)
(* core.  Two independent halves share the module:                         *)
(*   - the job scheduler (schedule, unschedule, _dispatch_event), run by   *)
(*     the loop thread and by one other thread, under _job_queue_lock;     *)
(*   - the connection I/O (accept, send, _nonblock_read, _nonblock_write,  *)
(*     _clean_up_client), run by the loop thread alone, with a well-       *)
(*     behaved application (ConnSpec, ShutdownSpec) and with one whose     *)
(*     handlers and close hooks call back into the server (MisuseSpec).    *)
(* Times are counted in half time-units, so that a remaining delay can lie *)
(* strictly between 0 and the clamp of one time-unit.                      *)
(***************************************************************************)
EXTENDS Integers, Sequences, FiniteSets, TLC

\* ------------------------------------------------------------------ bounds
MaxJobs == 2        \* jobs ever created by schedule
MaxTime == 2        \* last clock value (half time-units)
MaxDelay == 3       \* largest delay passed to schedule (half time-units)

MaxConns == 2       \* connections ever accepted
MaxMsgs == 2        \* messages ever passed to send
MaxLen == 2         \* longest message, in bytes

\* The literal 1 of _dispatch_event (the clamp, one time-unit) in clock steps.
Unit == 2

Delays == 0..MaxDelay
Addrs == 1..MaxJobs

VARIABLES
    now,            \* time.time()
    jobs,           \* every ScheduledJob created, in creation order
    job_queue,      \* self._job_queue: the heap array, of indices into jobs
    lock,           \* self._job_queue_lock: "free", "loop" or "ext"
    pc,             \* position of the loop thread in _dispatch_event
    t,              \* _dispatch_event: t
    tasks,          \* _dispatch_event: tasks
    dt,             \* _dispatch_event: dt
    ti,             \* _dispatch_event: index of the next task of `for task in tasks`
    ret             \* value returned by the last completed _dispatch_event

schedVars == <<now, jobs, job_queue, lock, pc, t, tasks, dt, ti, ret>>

VARIABLES
    conns,          \* every client object made by _accept, in creation order:
                    \* its descriptor, whether its socket is open, on_close calls
    clients,        \* self._clients, as indices into conns
    send_queue,     \* self._send_queue: descriptor -> deque of SendMessage
    interest,       \* per client, what the backend polls it for
    wire,           \* per client, the bytes its socket.send has accepted
    msgs,           \* per client, every message passed to send for it, in call
                    \* order: data, has a callback, callback calls, dequeued
    nmsgs,          \* number of messages ever passed to send
    serving,        \* the loop: "serving", "shutdown" or "crashed"
    ev              \* the last loop event, if it tore a client down or raised:
                    \* its entry point, its client and the cause

connVars == <<conns, clients, send_queue, interest, wire, msgs, nmsgs, serving, ev>>

vars == <<schedVars, connVars>>


\* ------------------------------------------------------------ ScheduledJob
\* ScheduledJob.__init__; addr is the object's address; fired counts the
\* invocations of func, early records one made with t < time, and trueCount
\* counts the true results of unschedule.
ScheduledJob(time, addr) ==
    [time |-> time, cancel |-> FALSE, dispatched |-> FALSE, addr |-> addr,
     fired |-> 0, early |-> FALSE, trueCount |-> 0]

\* ScheduledJob defines no ordering: a < b on two jobs is the interpreter's
\* default comparison of two objects of one class, which orders them by address.
JobLess(js, a, b) == js[a].addr < js[b].addr

\* ------------------------------------------------------------------- heapq
\* heapq._siftdown(heap, startpos, pos), positions 1-based.
RECURSIVE SiftDownLoop(_, _, _, _, _)
SiftDownLoop(js, heap, startpos, pos, newitem) ==
    IF pos > startpos
    THEN LET parentpos == pos \div 2
             parent == heap[parentpos]
         IN IF JobLess(js, newitem, parent)
            THEN SiftDownLoop(js, [heap EXCEPT ![pos] = parent], startpos, parentpos, newitem)
            ELSE [heap EXCEPT ![pos] = newitem]
    ELSE [heap EXCEPT ![pos] = newitem]

_siftdown(js, heap, startpos, pos) == SiftDownLoop(js, heap, startpos, pos, heap[pos])

\* heapq._siftup(heap, pos), positions 1-based.
RECURSIVE SiftUpLoop(_, _, _, _, _)
SiftUpLoop(js, heap, startpos, pos, newitem) ==
    LET endpos == Len(heap)
        childpos == 2 * pos
        rightpos == childpos + 1
    IN IF childpos <= endpos
       THEN LET c == IF rightpos <= endpos /\ ~JobLess(js, heap[childpos], heap[rightpos])
                     THEN rightpos ELSE childpos
            IN SiftUpLoop(js, [heap EXCEPT ![pos] = heap[c]], startpos, c, newitem)
       ELSE _siftdown(js, [heap EXCEPT ![pos] = newitem], startpos, pos)

_siftup(js, heap, pos) == SiftUpLoop(js, heap, pos, pos, heap[pos])

\* heapq.heappush(heap, item)
heappush(js, heap, item) == _siftdown(js, Append(heap, item), 1, Len(heap) + 1)

\* heapq.heappop(heap): the item returned, and the heap left.
heappop_item(heap) == heap[1]

heappop_rest(js, heap) ==
    LET lastelt == heap[Len(heap)]
        rest == SubSeq(heap, 1, Len(heap) - 1)
    IN IF rest = <<>> THEN rest
       ELSE _siftup(js, [rest EXCEPT ![1] = lastelt], 1)

\* ---------------------------------------------------------------- schedule
\* schedule(delay, func): the jobs and the heap after the call (lines 57-58).
schedule_jobs(delay, addr) == Append(jobs, ScheduledJob(now + delay, addr))

schedule_queue(delay, addr) ==
    heappush(schedule_jobs(delay, addr), job_queue, Len(jobs) + 1)

FreeAddrs == Addrs \ {jobs[j].addr : j \in 1..Len(jobs)}

\* -------------------------------------------------------------- unschedule
\* Mutants of line 63: the cancel test dropped; the dispatched test dropped.
Cancellable_NoCancelTest(job) == ~job.dispatched

Cancellable_NoDispatchedTest(job) == ~job.cancel

\* Line 63, negated: the job can still be cancelled.
Cancellable(job) == ~(job.dispatched \/ job.cancel)

\* unschedule(job): the result, and the jobs after the call (lines 63-66).
unschedule_result(j) == Cancellable(jobs[j])

unschedule_jobs(j) ==
    IF Cancellable(jobs[j])
    THEN [jobs EXCEPT ![j].cancel = TRUE, ![j].trueCount = @ + 1]
    ELSE jobs

\* --------------------------------------------------------- _dispatch_event
\* Line 89: dt = self._job_queue[0].time - t if self._job_queue else 1
NextDt(queue, js, tt) == IF queue # <<>> THEN js[queue[1]].time - tt ELSE Unit

\* Mutant of line 90: the loop goes on while the head is less than a full
\* clock step away.
NotDue_OffByOne(d) == d > 1

\* Line 90: the collection loop stops.
NotDue(d) == d > 0

\* Mutant of line 94: the cancel flag is not looked at.
Runnable_IgnoreCancel(task) == TRUE

\* Line 94: the popped task is to be run.
Runnable(task) == ~task.cancel

\* Mutant of lines 87-91: the break does not leave the with block.
LockAfterLoop_Held == "loop"

\* Lines 87-91: the break leaves the with block, which releases the lock.
LockAfterLoop == "free"

\* Mutant of lines 96-97: after an action the tick goes back to collecting.
AfterAction_Recollect == "lock"

\* Lines 96-97: after an action returns, the for loop goes on to its next task.
AfterAction == "invoke"

\* Mutant of lines 98-99: no clamp.
ReturnValue_NoClamp(queue, d) == d

\* Lines 98-100: the value returned.
ReturnValue(queue, d) == IF queue = <<>> \/ d > Unit THEN Unit ELSE d

\* ------------------------------------------------------------------- Init
SchedInit ==
    /\ now = 0
    /\ jobs = <<>>
    /\ job_queue = <<>>
    /\ lock = "free"
    /\ pc = "idle"
    /\ t = 0
    /\ tasks = <<>>
    /\ dt = Unit
    /\ ti = 1
    /\ ret = -1

\* ------------------------------------------------- the clock (time.time())
Advance ==
    /\ now < MaxTime
    /\ now' = now + 1
    /\ UNCHANGED <<jobs, job_queue, lock, pc, t, tasks, dt, ti, ret>>
    /\ UNCHANGED connVars

\* ------------------------------------- the loop thread: _dispatch_event
\* Lines 85-86: t = time.time(); tasks = []
TickStart ==
    /\ pc = "idle"
    /\ t' = now
    /\ tasks' = <<>>
    /\ ti' = 1
    /\ pc' = "lock"
    /\ UNCHANGED <<now, jobs, job_queue, lock, dt, ret>>
    /\ UNCHANGED connVars

\* Line 87: with self._job_queue_lock (blocks while another thread holds it).
TickLock ==
    /\ pc = "lock"
    /\ lock = "free"
    /\ lock' = "loop"
    /\ pc' = "collect"
    /\ UNCHANGED <<now, jobs, job_queue, t, tasks, dt, ti, ret>>
    /\ UNCHANGED connVars

\* Lines 88-95: one iteration of the collection loop; the break leaves the
\* with block and releases the lock.
TickCollect ==
    /\ pc = "collect"
    /\ LET d == NextDt(job_queue, jobs, t)
       IN /\ dt' = d
          /\ IF NotDue(d)
             THEN /\ lock' = LockAfterLoop
                  /\ pc' = "invoke"
                  /\ UNCHANGED <<jobs, job_queue, tasks>>
             ELSE LET task == heappop_item(job_queue)
                  IN /\ job_queue' = heappop_rest(jobs, job_queue)
                     /\ jobs' = [jobs EXCEPT ![task].dispatched = TRUE]
                     /\ tasks' = IF Runnable(jobs[task]) THEN Append(tasks, task) ELSE tasks
                     /\ UNCHANGED <<lock, pc>>
    /\ UNCHANGED <<now, t, ti, ret>>
    /\ UNCHANGED connVars

\* Lines 96-97: task.func(*task.args, **task.kwargs) is entered.
TickInvoke ==
    /\ pc = "invoke"
    /\ ti <= Len(tasks)
    /\ jobs' = [jobs EXCEPT ![tasks[ti]].fired = @ + 1, ![tasks[ti]].early = (@ \/ t < jobs[tasks[ti]].time)]
    /\ pc' = "action"
    /\ UNCHANGED <<now, job_queue, lock, t, tasks, dt, ti, ret>>
    /\ UNCHANGED connVars

\* The action returns without calling the server.
ActionReturn ==
    /\ pc = "action"
    /\ ti' = ti + 1
    /\ pc' = AfterAction
    /\ UNCHANGED <<now, jobs, job_queue, lock, t, tasks, dt, ret>>
    /\ UNCHANGED connVars

\* The action calls schedule(delay, ...) (lines 55-59) and returns.
ActionSchedule ==
    /\ pc = "action"
    /\ lock = "free"
    /\ Len(jobs) < MaxJobs
    /\ \E delay \in Delays, addr \in FreeAddrs :
          /\ jobs' = schedule_jobs(delay, addr)
          /\ job_queue' = schedule_queue(delay, addr)
    /\ ti' = ti + 1
    /\ pc' = AfterAction
    /\ UNCHANGED <<now, lock, t, tasks, dt, ret>>
    /\ UNCHANGED connVars

\* The action calls unschedule(job) (lines 61-66) on a handle and returns.
ActionUnschedule ==
    /\ pc = "action"
    /\ lock = "free"
    /\ \E j \in 1..Len(jobs) :
          jobs' = unschedule_jobs(j)
    /\ ti' = ti + 1
    /\ pc' = AfterAction
    /\ UNCHANGED <<now, job_queue, lock, t, tasks, dt, ret>>
    /\ UNCHANGED connVars

\* The action raises: line 97 catches nothing, the exception leaves
\* _dispatch_event and ends the loop thread.
ActionRaise ==
    /\ pc = "action"
    /\ pc' = "crashed"
    /\ UNCHANGED <<now, jobs, job_queue, lock, t, tasks, dt, ti, ret>>
    /\ UNCHANGED connVars

\* Lines 98-100: the clamp and the return.
TickReturn ==
    /\ pc = "invoke"
    /\ ti > Len(tasks)
    /\ ret' = ReturnValue(job_queue, dt)
    /\ pc' = "idle"
    /\ tasks' = <<>>
    /\ ti' = 1
    /\ dt' = Unit
    /\ t' = 0
    /\ UNCHANGED <<now, jobs, job_queue, lock>>
    /\ UNCHANGED connVars

\* ------------------------------------ another thread: schedule, unschedule
\* schedule, lines 55-59: the with block runs while no one else holds the lock.
ExtSchedule ==
    /\ lock = "free"
    /\ Len(jobs) < MaxJobs
    /\ \E delay \in Delays, addr \in FreeAddrs :
          /\ jobs' = schedule_jobs(delay, addr)
          /\ job_queue' = schedule_queue(delay, addr)
    /\ UNCHANGED <<now, lock, pc, t, tasks, dt, ti, ret>>
    /\ UNCHANGED connVars

\* unschedule, lines 61-66: the with block runs while no one else holds the lock.
ExtUnschedule ==
    /\ lock = "free"
    /\ \E j \in 1..Len(jobs) :
          jobs' = unschedule_jobs(j)
    /\ UNCHANGED <<now, job_queue, lock, pc, t, tasks, dt, ti, ret>>
    /\ UNCHANGED connVars

SchedNext ==
    \/ Advance
    \/ TickStart
    \/ TickLock
    \/ TickCollect
    \/ TickInvoke
    \/ ActionReturn
    \/ ActionSchedule
    \/ ActionUnschedule
    \/ ActionRaise
    \/ TickReturn
    \/ ExtSchedule
    \/ ExtUnschedule

\* ================================================================ connections
Fds == 1..MaxConns
ConnIds == 1..Len(conns)

\* What a handler called by the loop (client._recv_data, a message's callback)
\* does before it ends: it may pass one message (one byte, no callback) to
\* send for its own client, and it returns or raises.
Behaviours == {"return", "raise", "send_return", "send_raise"}
Sends(b) == b \in {"send_return", "send_raise"}
Raises(b) == b \in {"raise", "send_raise", "close_raise"}

\* What a handler does that the server does not expect: it tears its own
\* client down (client.close(), which calls _clean_up_client) before it ends.
Misbehaviours == {"close_return", "close_raise"}
Closes(b) == b \in Misbehaviours

\* What client.on_close does: nothing the server sees, or a last send.
Hooks == {"return", "send"}

\* A message is named by its client and its place among that client's
\* messages; its i-th byte by the message and i: no two bytes ever sent are equal.
Data(id, len) == [i \in 1..len |-> <<id[1], id[2], i>>]


\* SendMessage.__init__ (id names the object).
SendMessage(id, data, callback) == [id |-> id, data |-> data, callback |-> callback]

\* The state a handler works on: the server's fields, and of the running
\* _nonblock_write its locals fd (curfd) and queue.  queue names the deque that
\* was self._send_queue[fd] at line 119: that entry while it is still in the
\* mapping, and the deque itself (detq) once the entry was deleted (detached).
State ==
    [conns |-> conns, clients |-> clients, send_queue |-> send_queue,
     interest |-> interest, wire |-> wire, msgs |-> msgs, nmsgs |-> nmsgs,
     how |-> "ok", err |-> "none", curfd |-> 0, detached |-> FALSE, detq |-> <<>>,
     hook |-> "return"]

\* how records why the running handler tears its client down.
Why(S, how) == [S EXCEPT !.how = how]

\* client.fileno(): the socket's descriptor, -1 once the socket is closed.
fileno(S, c) == S.conns[c].fd

\* del mapping[key], the key present.
DelKey(q, k) == [x \in (DOMAIN q) \ {k} |-> q[x]]

\* The backend's registration calls (abstract in BaseServer, lines 68-72).
_register_write(S, c) == [S EXCEPT !.interest[c] = "READ+WRITE"]

_register_read(S, c) == [S EXCEPT !.interest[c] = "READ"]

\* Mutant of line 140: the message goes to the front of the deque.
Enqueue_Front(queue, m) == <<m>> \o queue

\* Line 140: deque.append.
Enqueue(queue, m) == Append(queue, m)

\* send(client, data, callback), lines 139-141; len and callback describe the
\* message.
send(S, c, len, callback) ==
    LET fd == fileno(S, c)
        id == <<c, Len(S.msgs[c]) + 1>>
        m == SendMessage(id, Data(id, len), callback)
        old == IF fd \in DOMAIN S.send_queue THEN S.send_queue[fd] ELSE <<>>
        S1 == [S EXCEPT
                  !.send_queue = [x \in (DOMAIN @) \cup {fd} |->
                                     IF x = fd THEN Enqueue(old, m) ELSE @[x]],
                  !.msgs[c] = Append(@, [data |-> m.data, callback |-> callback,
                                         cbCount |-> 0, done |-> FALSE]),
                  !.nmsgs = @ + 1]
    IN _register_write(S1, c)

\* Mutant of lines 75-78: the whole mapping is dropped, not one key.
QueueWithout_All(q, fd) == [x \in {} |-> <<>>]

\* Lines 75-78: the mapping without the client's entry (a missing key is ignored).
QueueWithout(q, fd) == DelKey(q, fd)

\* Lines 81-82: self._clients after the teardown (the client is a member).
ActiveAfter(cl, c, finalize) == IF finalize THEN cl ELSE cl \ {c}

\* _clean_up_client(client, finalize), lines 74-82.  client.on_close() is
\* counted, and runs what the hook does, while the socket is still open.
_clean_up_client(S, c, finalize) ==
    LET fd == fileno(S, c)
        cut == ~S.detached /\ S.curfd = fd /\ fd \in DOMAIN S.send_queue
        S1 == [S EXCEPT
                  !.send_queue = QueueWithout(@, fd),
                  !.detached = @ \/ cut,
                  !.detq = IF cut THEN S.send_queue[fd] ELSE @]
        called == [S1 EXCEPT !.conns[c].closed = @ + 1]
        S2 == IF S.hook = "send" THEN send(called, c, 1, FALSE) ELSE called
        S3 == [S2 EXCEPT !.conns[c].open = FALSE, !.conns[c].fd = -1]
    IN IF ~finalize /\ c \notin S3.clients
       THEN [S3 EXCEPT !.err = "KeyError"]
       ELSE [S3 EXCEPT !.clients = ActiveAfter(@, c, finalize)]

\* A handler's own call of send, if its behaviour has one.
HandlerSend(S, c, b) == IF Sends(b) THEN send(S, c, 1, FALSE) ELSE S

\* A handler's own teardown of its client, if its behaviour has one.
HandlerClose(S, c, b) ==
    IF Closes(b) THEN _clean_up_client(Why(S, "self_teardown"), c, FALSE) ELSE S

\* All that a handler does to the server before it returns or raises.
HandlerCalls(S, c, b) == HandlerClose(HandlerSend(S, c, b), c, b)

\* Mutant of lines 113-115: no except clause, the exception leaves _nonblock_read.
HandlerFailure_Uncaught(S, c) == [S EXCEPT !.err = "Exception"]

\* Lines 113-115: the handler raised.
HandlerFailure(S, c) == _clean_up_client(S, c, FALSE)

\* _nonblock_read(client), lines 102-115.  outcome is that of recv: "error",
\* "eof" (no data) or "data"; b is what client._recv_data then does.
_nonblock_read(S, c, outcome, b) ==
    IF outcome = "error" THEN _clean_up_client(Why(S, "recv_failed"), c, FALSE)
    ELSE IF outcome = "eof" THEN _clean_up_client(Why(S, "recv_failed"), c, FALSE)
    ELSE LET S1 == HandlerCalls(S, c, b)
         IN IF Raises(b) THEN HandlerFailure(Why(S1, "handler_raised"), c) ELSE S1

\* Line 123: top.data[cb:]
Strip(data, cb) == SubSeq(data, cb + 1, Len(data))

\* Mutant of line 124: any write completes the message.
FullyFlushed_Always(data) == TRUE

\* Line 124: not top.data
FullyFlushed(data) == data = <<>>

\* Mutant of line 133: the queue never counts as empty.
Drained_Never(queue) == FALSE

\* Line 133: not queue
Drained(queue) == queue = <<>>

\* The deque the local `queue` names.
LocalQueue(S) == IF S.detached THEN S.detq ELSE S.send_queue[S.curfd]

SetLocalQueue(S, q) ==
    IF S.detached THEN [S EXCEPT !.detq = q] ELSE [S EXCEPT !.send_queue[S.curfd] = q]

\* Lines 132-135: popleft, and on an empty queue the demotion and the removal
\* of the entry (a KeyError if it is gone).
Dequeue(S, c) ==
    IF S.err # "none" THEN S
    ELSE LET q == LocalQueue(S)
             S1 == [SetLocalQueue(S, Tail(q)) EXCEPT
                       !.msgs[Head(q).id[1]][Head(q).id[2]].done = TRUE]
         IN IF Drained(Tail(q))
            THEN LET S2 == _register_read(S1, c)
                 IN IF S.curfd \in DOMAIN S2.send_queue
                    THEN [S2 EXCEPT !.send_queue = DelKey(@, S.curfd)]
                    ELSE [S2 EXCEPT !.err = "KeyError"]
            ELSE S1

\* Mutant of lines 128-131: the return of line 131 is missing.
CallbackFailure_NoReturn(S, c) == Dequeue(_clean_up_client(S, c, FALSE), c)

\* Lines 128-131: the callback raised.
CallbackFailure(S, c) == _clean_up_client(S, c, FALSE)

\* _nonblock_write(client), lines 117-137.  sockerr: socket.send raises
\* socket.error; otherwise it accepts cb bytes; b is what the callback does.
_nonblock_write(S, c, sockerr, cb, b) ==
    LET fd == fileno(S, c)
        S0 == [S EXCEPT !.curfd = fd,
                        !.send_queue = [x \in (DOMAIN @) \cup {fd} |->
                                           IF x \in DOMAIN @ THEN @[x] ELSE <<>>]]
    IN IF S0.send_queue[fd] = <<>> THEN [S0 EXCEPT !.err = "IndexError"]
       ELSE IF sockerr THEN _clean_up_client(Why(S0, "socket_error"), c, FALSE)
       ELSE LET top == Head(S0.send_queue[fd])
                rest == Strip(top.data, cb)
                S1 == [S0 EXCEPT
                          !.wire[c] = @ \o SubSeq(top.data, 1, cb),
                          !.send_queue[fd] = [@ EXCEPT ![1].data = rest]]
            IN IF FullyFlushed(rest)
               THEN IF top.callback
                    THEN LET S2 == [S1 EXCEPT !.msgs[top.id[1]][top.id[2]].cbCount = @ + 1]
                             S3 == HandlerCalls(S2, c, b)
                         IN IF Raises(b)
                            THEN CallbackFailure(Why(S3, "callback_raised"), c)
                            ELSE Dequeue(S3, c)
                    ELSE Dequeue(S1, c)
               ELSE S1

\* ------------------------------------------------------------------- Init
NoEvent == [op |-> "none", conn |-> 0, how |-> "ok"]

ConnInit ==
    /\ conns = <<>>
    /\ clients = {}
    /\ send_queue = [x \in {} |-> <<>>]
    /\ interest = <<>>
    /\ wire = <<>>
    /\ msgs = <<>>
    /\ nmsgs = 0
    /\ serving = "serving"
    /\ ev = NoEvent

\* wire and msgs observe what was sent and delivered; they are kept for a
\* closed client in the state its teardown leads to, and dropped after it.
Observed(h) == [x \in DOMAIN h |-> IF x \in DOMAIN conns /\ ~conns[x].open THEN <<>> ELSE h[x]]

\* The server's fields after a handler that ended in state S; an exception
\* that reaches the loop ends it.  ev names the event if it tore its client
\* down or raised.
Commit(S, op, c) ==
    /\ conns' = S.conns
    /\ clients' = S.clients
    /\ send_queue' = S.send_queue
    /\ interest' = S.interest
    /\ wire' = Observed(S.wire)
    /\ msgs' = Observed(S.msgs)
    /\ nmsgs' = S.nmsgs
    /\ ev' = IF S.how = "ok" /\ S.err = "none" THEN NoEvent
             ELSE [op |-> op, conn |-> c, how |-> S.how]
    /\ serving' = IF S.err = "none" THEN serving ELSE "crashed"

Active(c) == c \in clients /\ conns[c].open

FreeFds == Fds \ {conns[c].fd : c \in {x \in ConnIds : conns[x].open}}

\* The client's descriptor has a non-empty deque in self._send_queue.
HasQueue(c) == conns[c].fd \in DOMAIN send_queue /\ send_queue[conns[c].fd] # <<>>

\* accept() hands out the lowest descriptor number not in use, so a number
\* released by a close is the next one given.
NextFd == CHOOSE fd \in FreeFds : \A g \in FreeFds : fd <= g

\* -------------------------------------------------------- the loop's events
\* _accept, lines 48-53; the backend then polls the new client for reading.
Accept ==
    /\ serving = "serving"
    /\ Len(conns) < MaxConns
    /\ LET c == Len(conns) + 1
              S == [State EXCEPT
                       !.conns = Append(@, [fd |-> NextFd, open |-> TRUE, closed |-> 0]),
                       !.clients = @ \cup {c},
                       !.interest = Append(@, "READ"),
                       !.wire = Append(@, <<>>),
                       !.msgs = Append(@, <<>>)]
       IN Commit(S, "accept", c)
    /\ UNCHANGED schedVars

\* send, lines 139-141, called by the application on the loop thread for one
\* of its active clients, with empty data or with data of the longest size.
Send ==
    /\ serving = "serving"
    /\ nmsgs < MaxMsgs
    /\ \E c \in ConnIds :
          /\ Active(c)
          /\ \E len \in {0, MaxLen}, callback \in BOOLEAN :
                Commit(send(State, c, len, callback), "send", c)
    /\ UNCHANGED schedVars

\* The backend reports a client readable: _nonblock_read, lines 102-115.
ReadReady ==
    /\ serving = "serving"
    /\ \E c \in ConnIds :
          /\ Active(c)
          /\ \E outcome \in {"error", "eof", "data"} :
                \E b \in (IF outcome = "data" THEN Behaviours ELSE {"return"}) :
                   /\ Sends(b) => nmsgs < MaxMsgs
                   /\ Commit(_nonblock_read(State, c, outcome, b), "read", c)
    /\ UNCHANGED schedVars

\* The backend reports a client polled for writing writable: _nonblock_write,
\* lines 117-137.
WriteReady ==
    /\ serving = "serving"
    /\ \E c \in ConnIds :
          /\ Active(c)
          /\ interest[c] = "READ+WRITE"
          /\ LET fd == conns[c].fd
                 pending == fd \in DOMAIN send_queue /\ send_queue[fd] # <<>>
                 left == IF pending THEN Len(Head(send_queue[fd]).data) ELSE 0
             IN \/ Commit(_nonblock_write(State, c, TRUE, 0, "return"), "write", c)
                \/ \E cb \in 0..left :
                      LET calls == pending /\ cb = left /\ Head(send_queue[fd]).callback
                      IN \E b \in (IF calls THEN Behaviours ELSE {"return"}) :
                            /\ Sends(b) => nmsgs < MaxMsgs
                            /\ Commit(_nonblock_write(State, c, FALSE, cb, b), "write", c)
    /\ UNCHANGED schedVars

\* The loop leaves its serving loop (stop() was called).
Shutdown ==
    /\ serving = "serving"
    /\ serving' = "shutdown"
    /\ ev' = NoEvent
    /\ UNCHANGED <<conns, clients, send_queue, interest, wire, msgs, nmsgs>>
    /\ UNCHANGED schedVars

\* The bulk shutdown iteration: _clean_up_client(client, True), lines 74-82,
\* on a client of self._clients not yet cleaned up.
Finalize ==
    /\ serving = "shutdown"
    /\ \E c \in ConnIds :
          /\ Active(c)
          /\ Commit(_clean_up_client(Why(State, "shutdown"), c, TRUE), "finalize", c)
    /\ UNCHANGED schedVars

ConnNext ==
    \/ Accept
    \/ Send
    \/ ReadReady
    \/ WriteReady

\* --------------------------------------- events of a misbehaving application
\* A read-ready event whose handler tears its own client down, then returns
\* or raises: _nonblock_read, lines 102-115.
ReadReadyClosing ==
    /\ serving = "serving"
    /\ \E c \in ConnIds :
          /\ Active(c)
          /\ \E b \in Misbehaviours :
                Commit(_nonblock_read(State, c, "data", b), "read", c)
    /\ UNCHANGED schedVars

\* A write-ready event that flushes a message whose callback tears its own
\* client down, then returns or raises: _nonblock_write, lines 117-137.
WriteReadyClosing ==
    /\ serving = "serving"
    /\ \E c \in ConnIds :
          /\ Active(c)
          /\ interest[c] = "READ+WRITE"
          /\ HasQueue(c)
          /\ Head(send_queue[conns[c].fd]).callback
          /\ \E b \in Misbehaviours :
                Commit(_nonblock_write(State, c, FALSE,
                                       Len(Head(send_queue[conns[c].fd]).data), b),
                       "write", c)
    /\ UNCHANGED schedVars

\* A read-ready event at end of stream for a client whose on_close sends a
\* last message: _nonblock_read, lines 108-109, and _clean_up_client.
ReadReadyLastWord ==
    /\ serving = "serving"
    /\ nmsgs < MaxMsgs
    /\ \E c \in ConnIds :
          /\ Active(c)
          /\ Commit(_nonblock_read([State EXCEPT !.hook = "send"], c, "eof", "return"),
                    "read", c)
    /\ UNCHANGED schedVars

\* A write-ready event for an active client that has no message queued:
\* _nonblock_write, lines 117-121.
WriteReadyIdle ==
    /\ serving = "serving"
    /\ \E c \in ConnIds :
          /\ Active(c)
          /\ ~HasQueue(c)
          /\ Commit(_nonblock_write(State, c, FALSE, 0, "return"), "write", c)
    /\ UNCHANGED schedVars

MisuseNext ==
    \/ ConnNext
    \/ ReadReadyClosing
    \/ WriteReadyClosing
    \/ ReadReadyLastWord
    \/ WriteReadyIdle

ShutdownNext ==
    \/ ConnNext
    \/ Shutdown
    \/ Finalize

\* ------------------------------------------------------- specifications
Init == SchedInit /\ ConnInit

\* The scheduler alone: no connection is ever accepted.
SchedSpec == Init /\ [][SchedNext]_vars

\* The connection I/O of a serving loop: no job is ever scheduled.
ConnSpec == Init /\ [][ConnNext]_vars

\* The connection I/O up to and through the end of the loop.
ShutdownSpec == Init /\ [][ShutdownNext]_vars

\* The connection I/O with an application that tears clients down from its
\* handlers, sends from its close hook, or is sent a stale write-ready event.
MisuseSpec == Init /\ [][MisuseNext]_vars

Next == SchedNext \/ ShutdownNext \/ MisuseNext

Spec == Init /\ [][Next]_vars

\* ---------------------------------------------------- scheduler properties
JobIds == 1..Len(jobs)

\* C1: a job's action is invoked only inside a tick whose sampled time t
\* satisfies t >= fire time (never early), and at most once in total.
C1_FiresOnlyWhenDueAtMostOnce ==
    \A j \in JobIds : jobs[j].fired <= 1 /\ ~jobs[j].early

\* A job scheduled for a later time has been invoked by a tick.
C1_Witness ==
    \E j \in JobIds : jobs[j].fired = 1 /\ jobs[j].time > 0 /\ pc = "action"

\* C2: an action is only ever invoked for a job on which no unschedule call
\* has returned true, whichever thread made the call and wherever the tick was.
C2_CancelledNeverRuns ==
    \A j \in JobIds : jobs[j].fired > 0 => jobs[j].trueCount = 0

\* A job whose unschedule returned true was later popped as due by a tick,
\* which has gone on to its invocation phase without running it.
C2_Witness ==
    \E j \in JobIds :
        /\ jobs[j].trueCount = 1 /\ jobs[j].dispatched /\ jobs[j].fired = 0
        /\ pc = "invoke"

\* C3: unschedule returns true at most once per job and only for a job not yet
\* marked dispatched: a step in which it returns true for job j starts from a
\* state where it never returned true for j and j is not dispatched (so every
\* call after a true result or after dispatch returns false).
C3_UnscheduleTrueOnceBeforeDispatch ==
    [][\A j \in JobIds :
          jobs'[j].trueCount # jobs[j].trueCount =>
              /\ jobs[j].trueCount = 0
              /\ jobs'[j].trueCount = 1
              /\ ~jobs[j].dispatched]_schedVars

\* unschedule has returned true for one job and false (already dispatched) was
\* the only possible answer for another, from inside a running action.
C3_Witness ==
    \E j, k \in JobIds :
        /\ jobs[j].trueCount = 1
        /\ jobs[k].dispatched /\ jobs[k].trueCount = 0
        /\ pc = "action"

\* C10, as claimed: no job ever has cancel and dispatched both true.
C10_Original ==
    \A j \in JobIds : ~(jobs[j].cancel /\ jobs[j].dispatched)

\* C10, amended: each flag once set is never reset, cancel is never set on a
\* job that is already dispatched, and a job with both flags set (cancelled,
\* then popped as due by a tick, which marks it dispatched all the same) has
\* never had its action invoked.
C10_FlagsMonotoneCancelBeforeDispatch ==
    [][\A j \in JobIds :
          /\ jobs[j].cancel => jobs'[j].cancel
          /\ jobs[j].dispatched => jobs'[j].dispatched
          /\ (jobs[j].dispatched /\ ~jobs[j].cancel) => ~jobs'[j].cancel
          /\ (jobs'[j].cancel /\ jobs'[j].dispatched) => jobs'[j].fired = 0]_schedVars

\* A cancelled job has been popped by a tick and carries both flags.
C10_Witness ==
    \E j \in JobIds : jobs[j].cancel /\ jobs[j].dispatched

\* The job whose action the loop thread is running.
Current == tasks[ti]

\* The earliest fire time among the jobs of a non-empty heap.
EarliestTime(queue, js) ==
    LET times == {js[queue[i]].time : i \in 1..Len(queue)}
    IN CHOOSE m \in times : \A x \in times : m <= x

\* C11, as claimed: when an action is invoked, every job invoked before it has
\* an earlier fire time, or the same fire time and was scheduled earlier.
C11_InvokedInFireOrder ==
    pc = "action" =>
        \A j \in JobIds \ {Current} :
            jobs[j].fired > 0 =>
                \/ jobs[j].time < jobs[Current].time
                \/ jobs[j].time = jobs[Current].time /\ j < Current

\* C14, as claimed: the step that ends the collection phase of a tick leaves
\* no job with time <= t in the heap.
C14_NoDueJobLeftBehind ==
    [][pc = "collect" /\ pc' = "invoke" =>
          \A i \in 1..Len(job_queue') : jobs'[job_queue'[i]].time > t]_schedVars

\* C15, as claimed: a tick that returns with a non-empty heap whose earliest
\* fire time is at most one time-unit after t returns that time minus t, and
\* the value is not negative.
C15_ReturnsRemainingDelay ==
    [][pc = "invoke" /\ pc' = "idle" /\ job_queue # <<>> =>
          LET left == EarliestTime(job_queue, jobs) - t
          IN left <= Unit => ret' = left /\ ret' >= 0]_schedVars

\* C16, as claimed: once the tick is over, returned or left by an exception,
\* every job that is dispatched and not cancelled has had its action invoked.
C16_DispatchedJobsAllInvoked ==
    pc \in {"idle", "crashed"} =>
        \A j \in JobIds :
            jobs[j].dispatched /\ ~jobs[j].cancel => jobs[j].fired >= 1

\* C12: the loop thread holds the job-heap lock exactly while it is in its
\* collection loop, so never while an action runs: a running action can always
\* complete a call of unschedule (the lock is free for it), and another thread
\* finds the lock taken only during the collection.
C12_LockOnlyDuringCollection ==
    /\ lock \in {"free", "loop"}
    /\ lock = "loop" <=> pc = "collect"
    /\ pc = "action" => lock = "free" /\ ENABLED ActionUnschedule

\* An action is running with the lock free while the heap holds a job that
\* can still be unscheduled.
C12_Witness ==
    /\ pc = "action"
    /\ lock = "free"
    /\ job_queue # <<>> /\ Cancellable(jobs[job_queue[1]])

\* C13: the value a tick returns is within 0..Unit, and is Unit whenever the
\* heap at return is empty or its earliest fire time is more than Unit after t.
C13_ReturnClamped ==
    [][pc = "invoke" /\ pc' = "idle" =>
          /\ ret' \in 0..Unit
          /\ job_queue = <<>> => ret' = Unit
          /\ job_queue # <<>> /\ EarliestTime(job_queue, jobs) - t > Unit => ret' = Unit]_schedVars

\* A tick has returned Unit with a job in the heap that is more than Unit away.
C13_Witness ==
    /\ pc = "idle" /\ ret = Unit
    /\ job_queue # <<>>
    /\ EarliestTime(job_queue, jobs) - now > Unit

\* C17: a tick collects once and then runs a fixed list.  A job's action is
\* invoked only as the current task of the list, for a job marked dispatched
\* and out of the heap; a job created by schedule enters the heap, not the
\* list; jobs leave the heap only in the collection loop; the collection is
\* entered only from the start of a tick; and while actions run the list does
\* not change and the position in it only goes forward, at most one past its
\* end.
C17_TickRunsOnlyCollectedJobs ==
    [][/\ \A j \in 1..Len(jobs') :
             IF j <= Len(jobs)
             THEN jobs'[j].fired # jobs[j].fired =>
                     /\ pc = "invoke" /\ j = tasks[ti]
                     /\ jobs[j].dispatched
                     /\ \A i \in 1..Len(job_queue) : job_queue[i] # j
             ELSE /\ jobs'[j].fired = 0 /\ ~jobs'[j].dispatched
                  /\ \E i \in 1..Len(job_queue') : job_queue'[i] = j
                  /\ \A i \in 1..Len(tasks') : tasks'[i] # j
       /\ Len(job_queue') < Len(job_queue) => pc = "collect"
       /\ pc' = "lock" => pc \in {"idle", "lock"}
       /\ pc \in {"invoke", "action"} /\ pc' \in {"invoke", "action"} =>
             /\ tasks' = tasks
             /\ ti' >= ti /\ ti' <= Len(tasks) + 1
             /\ pc = "action" /\ pc' = "invoke" => ti' = ti + 1]_schedVars

\* An action of a tick has scheduled a job that is already due (delay 0), and
\* the tick has returned without invoking it: it is still in the heap.
C17_Witness ==
    /\ pc = "idle" /\ ret >= 0
    /\ \E j, k \in JobIds :
          /\ jobs[j].fired = 1
          /\ jobs[k].fired = 0 /\ ~jobs[k].dispatched /\ ~jobs[k].cancel
          /\ jobs[k].time <= now
          /\ \E i \in 1..Len(job_queue) : job_queue[i] = k

\* --------------------------------------------------- connection properties
\* The client's entry of self._send_queue, if it has one.
HasEntry(c) == conns[c].open /\ conns[c].fd \in DOMAIN send_queue

QueueOf(c) == IF HasEntry(c) THEN send_queue[conns[c].fd] ELSE <<>>

RECURSIVE Concat(_)
Concat(ss) == IF ss = <<>> THEN <<>> ELSE Head(ss) \o Concat(Tail(ss))

\* Every byte passed to send for the client, in call order.
Sent(c) == Concat([k \in 1..Len(msgs[c]) |-> msgs[c][k].data])

\* The bytes still queued for the client, in queue order.
Pending(c) == Concat([k \in 1..Len(QueueOf(c)) |-> QueueOf(c)[k].data])

IsPrefix(a, b) == Len(a) <= Len(b) /\ SubSeq(b, 1, Len(a)) = a

\* The bytes the client's transport has accepted.
Wired(c) == {wire[c][n] : n \in 1..Len(wire[c])}

OnWire(c, data) == \A i \in 1..Len(data) : data[i] \in Wired(c)

SomeOnWire(c, data) == \E i \in 1..Len(data) : data[i] \in Wired(c)

\* C4: the bytes a client's transport has accepted are always a prefix of the
\* bytes passed to send for it, in call order (A ++ B for send(A); send(B)),
\* whatever each write accepted; while the client is active they are exactly
\* the sent bytes less those still queued, so they are all of A ++ B once the
\* queue has drained.
C4_DeliversSendOrder ==
    \A c \in ConnIds :
        LET sent == Sent(c)
        IN /\ IsPrefix(wire[c], sent)
           /\ Active(c) => wire[c] \o Pending(c) = sent

\* send(A); send(B) with A and B not empty, and the queue drained: A ++ B is
\* on the wire.
C4_Witness ==
    \E c \in ConnIds :
        /\ Active(c) /\ ~HasEntry(c)
        /\ Len(msgs[c]) = 2
        /\ msgs[c][1].data # <<>> /\ msgs[c][2].data # <<>>
        /\ wire[c] = msgs[c][1].data \o msgs[c][2].data

\* C5: a message's callback is invoked at most once, never for a message
\* without one, and only when all the message's bytes are on the wire; it has
\* been invoked once the message's last byte is on the wire, once the message
\* is dequeued, and before any byte of a later message of the client is written.
C5_CallbackOnceAfterFlushBeforeNext ==
    \A c \in ConnIds : \A k \in 1..Len(msgs[c]) :
        LET m == msgs[c][k]
        IN /\ m.cbCount <= 1
           /\ ~m.callback => m.cbCount = 0
           /\ m.cbCount = 1 => OnWire(c, m.data)
           /\ m.callback /\ m.data # <<>> /\ OnWire(c, m.data) => m.cbCount = 1
           /\ m.callback /\ m.done => m.cbCount = 1
           /\ \A k2 \in (k + 1)..Len(msgs[c]) :
                 m.callback /\ SomeOnWire(c, msgs[c][k2].data) => m.cbCount = 1

\* A message of the longest size with a callback was flushed and dequeued, its
\* callback ran once, and bytes of the next message have been written since.
C5_Witness ==
    \E c \in ConnIds :
        /\ Len(msgs[c]) = 2
        /\ msgs[c][1].callback /\ msgs[c][1].cbCount = 1 /\ msgs[c][1].done
        /\ Len(msgs[c][1].data) = MaxLen
        /\ SomeOnWire(c, msgs[c][2].data)

\* C6: an active client is polled for writing exactly while it has an entry in
\* self._send_queue, and an entry is never empty.
C6_WriteInterestIffPending ==
    /\ \A c \in ConnIds :
          Active(c) => (interest[c] = "READ+WRITE" <=> HasEntry(c))
    /\ \A fd \in DOMAIN send_queue : send_queue[fd] # <<>>

\* A client was promoted by send, drained by write-ready events, and demoted.
C6_Witness ==
    \E c \in ConnIds :
        /\ Active(c) /\ interest[c] = "READ" /\ ~HasEntry(c)
        /\ wire[c] # <<>>
        /\ \E b \in ConnIds : b # c /\ Active(b) /\ interest[b] = "READ+WRITE"

\* The entries of self._send_queue under keys other than fd are the same
\* before and after the step.
OtherEntriesKept(fd) ==
    /\ (DOMAIN send_queue') \ {fd} = (DOMAIN send_queue) \ {fd}
    /\ \A k \in (DOMAIN send_queue) \ {fd} : send_queue'[k] = send_queue[k]

\* The step leaves every client but a as it was: its object, its membership
\* of self._clients, what it is polled for, its queue entry.
OthersUntouched(a) ==
    /\ \A b \in ConnIds \ {a} :
          /\ conns'[b] = conns[b]
          /\ (b \in clients') <=> (b \in clients)
          /\ interest'[b] = interest[b]
    /\ OtherEntriesKept(conns[a].fd)

\* The step tears client a down as _clean_up_client(a) does.
TornDown(a) ==
    /\ ~conns'[a].open
    /\ conns'[a].closed = conns[a].closed + 1
    /\ conns[a].fd \notin DOMAIN send_queue'

\* The step is the loop event ev' names, on a client active before it.
EventOn(how) == ev'.how = how /\ ev'.conn \in ConnIds /\ Active(ev'.conn)

\* C7: when client A's protocol handler raises in _nonblock_read, nothing
\* reaches the loop, A is torn down and removed from self._clients, and every
\* other client keeps its membership, its queue entry and its interest.
C7_HandlerFaultIsolated ==
    [][EventOn("handler_raised") =>
          /\ serving' = "serving"
          /\ TornDown(ev'.conn)
          /\ ev'.conn \notin clients'
          /\ OthersUntouched(ev'.conn)]_vars

\* A's handler raised while another active client B had output pending.
C7_Witness ==
    /\ ev.how = "handler_raised"
    /\ ~conns[ev.conn].open
    /\ \E b \in ConnIds : b # ev.conn /\ Active(b) /\ QueueOf(b) # <<>>

\* C8: when the callback of a fully flushed message raises in _nonblock_write,
\* the client is torn down, nothing reaches the loop, and the call goes no
\* further: the message is not dequeued and the client is not demoted to
\* read interest.
C8_CallbackFaultStopsWrite ==
    [][EventOn("callback_raised") =>
          LET a == ev'.conn
              top == Head(send_queue[conns[a].fd])
          IN /\ serving' = "serving"
             /\ TornDown(a)
             /\ a \notin clients'
             /\ msgs'[top.id[1]][top.id[2]].cbCount = 1
             /\ ~msgs'[top.id[1]][top.id[2]].done
             /\ interest'[a] = "READ+WRITE"
             /\ OthersUntouched(a)]_vars

\* The callback of the only queued message raised after its last byte went out.
C8_Witness ==
    /\ ev.how = "callback_raised"
    /\ ~conns[ev.conn].open
    /\ \E k \in 1..Len(msgs[ev.conn]) :
          /\ msgs[ev.conn][k].cbCount = 1 /\ ~msgs[ev.conn][k].done
          /\ msgs[ev.conn][k].data # <<>>
          /\ wire[ev.conn] = Sent(ev.conn)

Teardowns == {"recv_failed", "handler_raised", "socket_error", "callback_raised", "shutdown"}

\* C9: every teardown of an active client removes its queue entry, calls its
\* close hook once and closes its socket; without finalize the client leaves
\* self._clients, with finalize self._clients is unchanged; no other client's
\* entry or membership changes.
C9_TeardownFrame ==
    [][\A how \in Teardowns : EventOn(how) =>
          LET a == ev'.conn
          IN /\ TornDown(a)
             /\ clients' = IF ev'.op = "finalize" THEN clients ELSE clients \ {a}
             /\ OthersUntouched(a)]_vars

\* A teardown with finalize left its client in self._clients while another
\* client, not yet torn down, keeps its queue entry.
C9_Witness ==
    /\ ev.op = "finalize"
    /\ ev.conn \in clients /\ ~conns[ev.conn].open /\ interest[ev.conn] = "READ+WRITE"
    /\ \E b \in ConnIds : Active(b) /\ QueueOf(b) # <<>>

\* C18, as claimed: every byte a client's transport accepted was passed to
\* send for that client, and every entry of self._send_queue is keyed by the
\* descriptor of an open client and holds that client's messages only.
C18_OutputStaysWithItsConnection ==
    /\ \A c \in ConnIds : \A n \in 1..Len(wire[c]) : wire[c][n][1] = c
    /\ \A fd \in DOMAIN send_queue :
          \E c \in ConnIds :
              /\ conns[c].open /\ conns[c].fd = fd
              /\ \A i \in 1..Len(send_queue[fd]) : send_queue[fd][i].id[1] = c

\* C19, as claimed: no client's close hook is called more than once, and no
\* event in which the server tore a client down raised into the loop.
C19_TornDownAtMostOnce ==
    /\ \A c \in ConnIds : conns[c].closed <= 1
    /\ serving = "crashed" =>
          ev.how \notin {"recv_failed", "handler_raised", "socket_error", "callback_raised"}

\* C20, as claimed: no write-ready event raises into the loop, and none
\* changes what a client that it leaves closed is polled for.
C20_WriteReadyNeverFails ==
    [][ev'.op = "write" =>
          /\ serving' # "crashed"
          /\ ~conns'[ev'.conn].open => interest'[ev'.conn] = interest[ev'.conn]]_vars

====
